---- MODULE Spec2Model ----
(***************************************************************************)
(* A model of funlib/persistence/arrays/datasets.py: the metadata resolver *)
(* (_read_voxel_size_offset), the dataset opener (open_ds), the dataset    *)
(* provisioner (prepare_ds) and the chunk geometry planner                 *)
(* (get_chunk_shape, get_chunk_size_dim).                                  *)
(*                                                                         *)
(* A Coordinate is a sequence of integers.  A Roi is a record              *)
(* [begin, shape].  The value None stands for Python's None and for an     *)
(* attribute key that is not present.                                      *)
(***************************************************************************)
EXTENDS Integers, Sequences, FiniteSets, TLC

VARIABLES
    planner,    \* the planner's input and output: [b, target, result], result 0 before the call
    meta,       \* the resolver's input and outputs: [attrs, shape_len, division, result]
    store,      \* the file system: [filename, container, dataset]
    call,       \* the last completed call of open_ds / prepare_ds and its outcome
    procs       \* the concurrent callers of prepare_ds, each with its position in the function

vars == <<planner, meta, store, call, procs>>

\* Python's None where a sequence (a Coordinate, a tuple) is expected; an
\* optional integer n is the tuple <<n>>.
None == <<>>

\* The value of a variable that a specification does not use.
Idle == "idle"

(***************************************************************************)
(* Bounds of the model.                                                    *)
(***************************************************************************)
\* block lengths 1..MaxBlock are enumerated for the planner
MaxBlock == 24
\* target chunk lengths 0..MaxTarget are enumerated for the planner
MaxTarget == 30

\* Coordinates of 1..MaxDims dimensions are enumerated for the resolver
MaxDims == 2

\* The target chunk length get_chunk_shape passes to get_chunk_size_dim.
TargetChunkSize == 256

(***************************************************************************)
(* Coordinate arithmetic (funlib.geometry.Coordinate as datasets.py uses   *)
(* it).                                                                    *)
(***************************************************************************)
Abs(x) == IF x < 0 THEN -x ELSE x

\* offset[::-1]
Reverse(s) == [i \in 1..Len(s) |-> s[Len(s) + 1 - i]]

\* The two readings of Coordinate's "/" on integers: a // b, and int(a / b),
\* which rounds towards zero.  They agree on a >= 0 (b > 0 throughout).
Divisions == {"floor", "truncate"}

DivInt(a, b, division) ==
    IF division = "floor" \/ a >= 0 THEN a \div b ELSE -((-a) \div b)

\* a / b, a * b and a + b of Coordinates of equal length, elementwise.
CoordDiv(a, b, division) == [i \in 1..Len(a) |-> DivInt(a[i], b[i], division)]
CoordMul(a, b) == [i \in 1..Len(a) |-> a[i] * b[i]]
CoordAdd(a, b) == [i \in 1..Len(a) |-> a[i] + b[i]]
\* a / n for a number n
CoordDivBy(a, n, division) == [i \in 1..Len(a) |-> DivInt(a[i], n, division)]
\* a.is_multiple_of(b)
IsMultipleOf(a, b) == \A i \in 1..Len(a) : a[i] % b[i] = 0
\* (c,) * dims
Fill(c, dims) == [i \in 1..dims |-> c]

(***************************************************************************)
(* ChunkGeometryPlanner                                                    *)
(***************************************************************************)
\* One pass of the body of "for k in range(1, b + 1)" on the loop's variables
\* acc = [best_k, best_target_diff], keeping the last minimizer
\* ("diff <= best_target_diff").
ChunkLoopBodyTiesLast(b, target_chunk_size, k, acc) ==
    IF ((b \div k) * k) % b = 0
    THEN LET diff == Abs((b \div k) - target_chunk_size)
         IN  IF acc.best_k = 0 \/ diff <= acc.best_target_diff
             THEN [best_k |-> k, best_target_diff |-> diff]
             ELSE acc
    ELSE acc

\* One pass of the body of "for k in range(1, b + 1)" on the loop's variables
\* acc = [best_k, best_target_diff].  best_k = 0 stands for best_k = None
\* (k counts from 1).
ChunkLoopBody(b, target_chunk_size, k, acc) ==
    IF ((b \div k) * k) % b = 0
    THEN LET diff == Abs((b \div k) - target_chunk_size)
         IN  IF acc.best_k = 0 \/ diff < acc.best_target_diff
             THEN [best_k |-> k, best_target_diff |-> diff]
             ELSE acc
    ELSE acc

\* The loop "for k in range(1, b + 1)": loop[lo, hi, acc] is the loop's
\* variables after the passes k = lo, lo + 1, ..., hi, in this order, from
\* the variables acc.  The range is halved, and the first half's result is
\* evaluated (left.best_k >= 0 holds always) before the second half starts,
\* to keep the evaluation shallow.
ChunkLoop(b, target_chunk_size) ==
    LET loop[lo \in 1..(b + 1), hi \in 0..b,
             acc \in [best_k : 0..b, best_target_diff : Nat]] ==
            IF lo > hi
            THEN acc
            ELSE IF lo = hi
                 THEN ChunkLoopBody(b, target_chunk_size, lo, acc)
                 ELSE LET mid == (lo + hi) \div 2
                          left == loop[lo, mid, acc]
                      IN  IF left.best_k >= 0 THEN loop[mid + 1, hi, left] ELSE acc
    IN  loop[1, b, [best_k |-> 0, best_target_diff |-> 0]]

get_chunk_size_dim(b, target_chunk_size) ==
    b \div ChunkLoop(b, target_chunk_size).best_k

\* The block lengths and targets the planner is run on.
BlockLengths == (1..MaxBlock) \cup {100, 342, 684, 1024, 1368}
TargetLengths == (0..MaxTarget) \cup {TargetChunkSize}

InitPlanner ==
    /\ planner \in [b : BlockLengths, target : TargetLengths, result : {0}]
    /\ meta = Idle
    /\ store = Idle
    /\ call = Idle
    /\ procs = Idle

\* get_chunk_size_dim(b, target_chunk_size) is called and returns.
PlanChunk ==
    /\ planner.result = 0
    /\ planner' = [planner EXCEPT !.result = get_chunk_size_dim(planner.b, planner.target)]
    /\ UNCHANGED <<meta, store, call, procs>>

\* The next call takes its arguments.
PlanAgain ==
    /\ planner.result # 0
    /\ planner' \in [b : BlockLengths, target : TargetLengths, result : {0}]
    /\ UNCHANGED <<meta, store, call, procs>>

NextPlanner == PlanChunk \/ PlanAgain

SpecPlanner == InitPlanner /\ [][NextPlanner]_vars

Divisors(b) == {d \in 1..b : b % d = 0}

\* C4: for every block length b >= 1 and every target, get_chunk_size_dim
\* returns a divisor d of b with |d - target| minimal among the divisors of
\* b, the largest such divisor when several are equally close; b = 100 with
\* target 256 gives 100 and b = 1024 with target 256 gives 256.
C4_ClosestLargestDivisor ==
    planner.result # 0 =>
        LET d == planner.result
            b == planner.b
            t == planner.target
        IN  /\ d \in Divisors(b)
            /\ \A e \in Divisors(b) : Abs(d - t) <= Abs(e - t)
            /\ \A e \in Divisors(b) : Abs(e - t) = Abs(d - t) => e <= d
            /\ (b = 100 /\ t = 256) => d = 100
            /\ (b = 1024 /\ t = 256) => d = 256

\* A tie was broken: two divisors of b are equally close to the target and
\* the larger was returned.
C4_Witness ==
    /\ planner.result # 0
    /\ \E e \in Divisors(planner.b) :
          /\ e < planner.result
          /\ Abs(e - planner.target) = Abs(planner.result - planner.target)

\* get_chunk_size_dim(b, 256) for the block lengths of the model, evaluated
\* once.
ChunkSizeDim256 == [b \in BlockLengths |-> get_chunk_size_dim(b, TargetChunkSize)]

\* The planner applied to the target with the block length never exceeded:
\* min(b, 256), which need not divide b.
get_chunk_shape_capped(block_shape) ==
    [i \in 1..Len(block_shape) |->
        IF block_shape[i] < TargetChunkSize THEN block_shape[i] ELSE TargetChunkSize]

get_chunk_shape(block_shape) ==
    [i \in 1..Len(block_shape) |-> ChunkSizeDim256[block_shape[i]]]

(***************************************************************************)
(* MetadataResolver                                                        *)
(*                                                                         *)
(* ds.attrs is a function from the keys that are present to their values;  *)
(* "k in ds.attrs" is k \in DOMAIN attrs.                                  *)
(***************************************************************************)
ErrLength == "AssertionError: resolution and offset attributes differ in length"
ErrCoordinate == "AssertionError: Coordinates of unequal dimensions"

Failed(e) == [kind |-> "error", error |-> e]

\* ds.attrs["transform"].get("ordering", "C")
TransformOrder(attrs) ==
    IF "ordering" \in DOMAIN attrs.transform THEN attrs.transform.ordering ELSE "C"

\* voxel_size after the first if/elif chain, None when no key supplies it
ReadVoxelSize(attrs, order) ==
    IF "resolution" \in DOMAIN attrs THEN attrs.resolution
    ELSE IF "scale" \in DOMAIN attrs THEN attrs.scale
    ELSE IF "pixelResolution" \in DOMAIN attrs THEN attrs.pixelResolution.dimensions
    ELSE IF "transform" \in DOMAIN attrs
         THEN IF TransformOrder(attrs) # order
              THEN Reverse(attrs.transform.scale)
              ELSE attrs.transform.scale
         ELSE None

\* offset after the second if/elif chain, None when no key supplies it
ReadOffset(attrs, order) ==
    IF "offset" \in DOMAIN attrs THEN attrs.offset
    ELSE IF "transform" \in DOMAIN attrs
         THEN IF TransformOrder(attrs) # order
              THEN Reverse(attrs.transform.translate)
              ELSE attrs.transform.translate
         ELSE None

\* The assertion the "offset" branch makes: dims is set and differs from
\* len(offset).
LengthAssertionFails(attrs, order) ==
    /\ "offset" \in DOMAIN attrs
    /\ ReadVoxelSize(attrs, order) # None
    /\ Len(ReadVoxelSize(attrs, order)) # Len(attrs.offset)

\* dims when the two chains are through and the default is applied
Dims(attrs, shape_len, order) ==
    IF ReadVoxelSize(attrs, order) # None THEN Len(ReadVoxelSize(attrs, order))
    ELSE IF "offset" \in DOMAIN attrs THEN Len(attrs.offset)
    ELSE shape_len

\* The defaults filled in, the reversal for order "F" left out.
CanonicalNoReverse(attrs, shape_len, order) ==
    LET dims == Dims(attrs, shape_len, order)
        vs0 == ReadVoxelSize(attrs, order)
        off0 == ReadOffset(attrs, order)
    IN  [voxel_size |-> IF vs0 = None THEN Fill(1, dims) ELSE vs0,
         offset |-> IF off0 = None THEN Fill(0, dims) ELSE off0]

\* (voxel_size, offset) before the offset is tested against voxel_size:
\* the defaults are filled in and both are reversed for order "F".
Canonical(attrs, shape_len, order) ==
    LET dims == Dims(attrs, shape_len, order)
        vs0 == ReadVoxelSize(attrs, order)
        off0 == ReadOffset(attrs, order)
        vs1 == IF vs0 = None THEN Fill(1, dims) ELSE vs0
        off1 == IF off0 = None THEN Fill(0, dims) ELSE off0
    IN  IF order = "F"
        THEN [voxel_size |-> Reverse(vs1), offset |-> Reverse(off1)]
        ELSE [voxel_size |-> vs1, offset |-> off1]

\* The rounding with the multiplication by voxel_size left out.
SnapNoMultiply(offset, voxel_size, division) ==
    IF CoordMul(CoordDiv(offset, voxel_size, division), voxel_size) # offset
    THEN CoordDiv(CoordAdd(offset, CoordDivBy(voxel_size, 2, division)),
                  voxel_size, division)
    ELSE offset

\* The offset the function returns for Coordinates of equal length: rounded
\* when (offset / voxel_size) * voxel_size != offset.
Snap(offset, voxel_size, division) ==
    IF CoordMul(CoordDiv(offset, voxel_size, division), voxel_size) # offset
    THEN CoordMul(CoordDiv(CoordAdd(offset, CoordDivBy(voxel_size, 2, division)),
                           voxel_size, division),
                  voxel_size)
    ELSE offset

\* _read_voxel_size_offset(ds, order) for a dataset with attributes attrs and
\* len(ds.shape) = shape_len: the pair returned, or the exception raised.
\* Coordinate arithmetic on unequal lengths fails in Coordinate.
ReadVoxelSizeOffset(attrs, shape_len, order, division) ==
    IF LengthAssertionFails(attrs, order) THEN Failed(ErrLength)
    ELSE LET c == Canonical(attrs, shape_len, order)
         IN  IF Len(c.voxel_size) # Len(c.offset) THEN Failed(ErrCoordinate)
             ELSE [kind |-> "ok",
                   voxel_size |-> c.voxel_size,
                   offset |-> Snap(c.offset, c.voxel_size, division)]

Orders == {"C", "F"}

\* The Coordinates of 1..MaxDims dimensions over a set of components.
Coordinates(components) ==
    UNION {[1..n -> components] : n \in 1..MaxDims}

VoxelComponents == {1, 2, 3}
OffsetComponents == {-5, -3, 0, 2}

Restrict(f, keys) == [k \in keys |-> f[k]]

\* The transform descriptors with scale v and translate o: the ordering tag
\* absent, "C" or "F".
Transforms(v, o) ==
    {[scale |-> v, translate |-> o]}
        \cup {[scale |-> v, translate |-> o, ordering |-> t] : t \in Orders}

\* The attribute sets that hold v under the voxel size keys they have and o
\* under the offset keys they have.
AttributeSets(v, o) ==
    {Restrict([resolution |-> v, scale |-> v,
               pixelResolution |-> [dimensions |-> v],
               transform |-> t, offset |-> o], keys) :
        keys \in SUBSET {"resolution", "scale", "pixelResolution", "transform", "offset"},
        t \in Transforms(v, o)}

Pending == [kind |-> "pending"]

InitMeta ==
    /\ \E v \in Coordinates(VoxelComponents), o \in Coordinates(OffsetComponents) :
          \E a \in AttributeSets(v, o), d \in Divisions :
              meta = [attrs |-> a, shape_len |-> Len(v), division |-> d,
                      result |-> [order \in Orders |-> Pending]]
    /\ planner = Idle
    /\ store = Idle
    /\ call = Idle
    /\ procs = Idle

\* _read_voxel_size_offset(ds, order) is called on the dataset and returns
\* or raises.
ReadMeta(order) ==
    /\ meta.result[order] = Pending
    /\ meta' = [meta EXCEPT !.result[order] =
                   ReadVoxelSizeOffset(meta.attrs, meta.shape_len, order, meta.division)]
    /\ UNCHANGED <<planner, store, call, procs>>

NextMeta == \E order \in Orders : ReadMeta(order)

SpecMeta == InitMeta /\ [][NextMeta]_vars

\* Where the resolver takes the two vectors from.
VoxelSizeFromTransform(attrs) ==
    /\ "transform" \in DOMAIN attrs
    /\ DOMAIN attrs \cap {"resolution", "scale", "pixelResolution"} = {}
VoxelSizeSupplied(attrs) ==
    DOMAIN attrs \cap {"resolution", "scale", "pixelResolution", "transform"} # {}
OffsetFromTransform(attrs) ==
    "transform" \in DOMAIN attrs /\ "offset" \notin DOMAIN attrs
OffsetSupplied(attrs) ==
    DOMAIN attrs \cap {"offset", "transform"} # {}

BothRead == \A order \in Orders : meta.result[order] # Pending

\* r is s with voxel_size and offset reversed, or the same failure as s
ReverseOf(r, s) ==
    \/ r.kind = "error" /\ r = s
    \/ /\ r.kind = "ok" /\ s.kind = "ok"
       /\ r.voxel_size = Reverse(s.voxel_size)
       /\ r.offset = Reverse(s.offset)

\* C5 as stated: for every attribute set, the voxel size and offset resolved
\* for order "F" are the elementwise reverse of those resolved for order "C".
C5_ReverseForEveryAttributeSet ==
    BothRead => ReverseOf(meta.result["F"], meta.result["C"])

\* C5 amended: when the transform descriptor supplies neither vector, the
\* result for order "F" is the elementwise reverse of the result for order
\* "C"; when it supplies both, the two results are equal.
C5_ReverseUnlessTransform ==
    BothRead =>
        /\ (~VoxelSizeFromTransform(meta.attrs) /\ ~OffsetFromTransform(meta.attrs))
              => ReverseOf(meta.result["F"], meta.result["C"])
        /\ (VoxelSizeFromTransform(meta.attrs) /\ OffsetFromTransform(meta.attrs))
              => meta.result["F"] = meta.result["C"]

\* Both orders were resolved from resolution and offset, and the reversal
\* shows: the voxel size is no palindrome and the offset was rounded.
C5_Witness ==
    /\ BothRead
    /\ {"resolution", "offset"} \subseteq DOMAIN meta.attrs
    /\ meta.result["C"].kind = "ok"
    /\ meta.result["C"].voxel_size # Reverse(meta.result["C"].voxel_size)
    /\ meta.result["C"].offset # meta.attrs.offset
    /\ meta.result["F"].voxel_size # meta.result["C"].voxel_size

\* The lengths of the source of the voxel size and of the source of the
\* offset, when both are supplied, differ.
SourcesDiffer(attrs, order) ==
    /\ VoxelSizeSupplied(attrs)
    /\ OffsetSupplied(attrs)
    /\ Len(ReadVoxelSize(attrs, order)) # Len(ReadOffset(attrs, order))

\* C6 as stated: whenever the source of the voxel size and the source of the
\* offset differ in length, the resolver fails with the dimensionality
\* mismatch error, whichever keys supply them.
C6_MismatchAlwaysAsserted ==
    \A order \in Orders :
        (meta.result[order] # Pending /\ SourcesDiffer(meta.attrs, order))
            => meta.result[order] = Failed(ErrLength)

\* A direct resolution and a transform.translate of another length: the
\* length assertion is not made, the failure is that of the Coordinate
\* arithmetic.
C6_Witness ==
    \E order \in Orders :
        /\ meta.result[order] = Failed(ErrCoordinate)
        /\ "resolution" \in DOMAIN meta.attrs
        /\ OffsetFromTransform(meta.attrs)
        /\ Len(meta.attrs.resolution) # Len(meta.attrs.transform.translate)

\* C7: every offset returned is a per-axis multiple of the voxel size
\* returned; rounding it again changes nothing; and an offset that was a
\* multiple of the voxel size already is returned as it was.
C7_SnapIdempotent ==
    \A order \in Orders :
        meta.result[order].kind = "ok" =>
            LET r == meta.result[order]
                c == Canonical(meta.attrs, meta.shape_len, order)
            IN  /\ IsMultipleOf(r.offset, r.voxel_size)
                /\ Snap(r.offset, r.voxel_size, meta.division) = r.offset
                /\ IsMultipleOf(c.offset, c.voxel_size) => r.offset = c.offset

\* An offset with a negative component was rounded against an odd voxel
\* size, on an axis where the two readings of "/" round differently.
C7_Witness ==
    \E order \in Orders :
        /\ meta.result[order].kind = "ok"
        /\ meta.division = "truncate"
        /\ LET r == meta.result[order]
               c == Canonical(meta.attrs, meta.shape_len, order)
           IN  \E i \in 1..Len(r.offset) :
                  /\ c.offset[i] = -5
                  /\ r.voxel_size[i] = 3
                  /\ r.offset[i] = -3

(***************************************************************************)
(* The backend and the Array handle                                        *)
(*                                                                         *)
(* A stored dataset is a record [shape, chunks, dtype, compressor, order,  *)
(* attrs]; the file system holds one container, [filename, container,      *)
(* dataset]: whether the container directory exists, and the dataset       *)
(* stored under the dataset name, None when that subpath is absent.  A     *)
(* filename is [stem, suffix].                                             *)
(***************************************************************************)
Roi(begin, shape) == [begin |-> begin, shape |-> shape]

\* Array(data, roi, voxel_size, chunk_shape=chunk_shape)
Array(data, roi, voxel_size, chunk_shape) ==
    [data |-> data, roi |-> roi, voxel_size |-> voxel_size, chunk_shape |-> chunk_shape]

\* Array.shape: the channel dimensions of the data, then the shape of the
\* roi in voxels (the operands are not negative: both readings of "/" agree).
ArrayShape(array) ==
    SubSeq(array.data.shape, 1, Len(array.data.shape) - Len(array.roi.shape))
        \o CoordDiv(array.roi.shape, array.voxel_size, "floor")

\* Array.dtype
ArrayDtype(array) == array.data.dtype

\* root.create_dataset(ds_name, shape=, chunks=, dtype=, compressor=): with
\* chunks=None the backend chooses the chunks, the whole array for the small
\* arrays of the model; the order of a new dataset is "C".
CreateDataset(shape, chunks, dtype, compressor) ==
    [shape |-> shape,
     chunks |-> IF chunks = None THEN shape ELSE chunks,
     dtype |-> dtype,
     compressor |-> compressor,
     order |-> "C",
     attrs |-> <<>>]

\* The subpath holds an array: the array metadata is there, not only a
\* directory with attributes.
IsArray(dataset) == dataset # None /\ "shape" \in DOMAIN dataset

ErrOpen == "KeyError: dataset not found"
ErrZip == "AssertionError: Only reading supported for zarr ZipStore"
ErrFormat == "RuntimeError: Unknown file format"
ErrHdf == "RuntimeError: prepare_ds does not support HDF5 files"
ErrRoiShape == "AssertionError: The provided ROI shape is not a multiple of voxel_size"
ErrRoiOffset == "AssertionError: The provided ROI offset is not a multiple of voxel_size"
ErrWriteSize == "AssertionError: The provided write size is not a multiple of voxel_size"
ErrIncompatible == "RuntimeError: Existing dataset is not compatible"

(***************************************************************************)
(* DatasetOpener                                                           *)
(***************************************************************************)
\* The leading dimensions of the shape taken, not the trailing ones.
OpenWithOrderLeading(ds, order, division) ==
    LET m == ReadVoxelSizeOffset(ds.attrs, Len(ds.shape), order, division)
    IN  IF m.kind = "error" THEN m
        ELSE LET roi == Roi(m.offset,
                            CoordMul(m.voxel_size, SubSeq(ds.shape, 1, Len(m.voxel_size))))
             IN  [kind |-> "ok", value |-> Array(ds, roi, m.voxel_size, ds.chunks)]

\* The three lines the concrete backends share: resolve the metadata, take
\* the trailing dimensions of the shape, build the Array.
OpenWithOrder(ds, order, division) ==
    LET m == ReadVoxelSizeOffset(ds.attrs, Len(ds.shape), order, division)
    IN  IF m.kind = "error" THEN m
        ELSE LET dims == Len(m.voxel_size)
                 shape == SubSeq(ds.shape, Len(ds.shape) - dims + 1, Len(ds.shape))
                 roi == Roi(m.offset, CoordMul(m.voxel_size, shape))
             IN  [kind |-> "ok", value |-> Array(ds, roi, m.voxel_size, ds.chunks)]

\* open_ds(filename, ds_name, mode) on a container whose subpath ds_name
\* holds dataset (None: nothing).  The result is [kind |-> "ok", value |->
\* the Array] or [kind |-> "error", error |-> the exception].  The .json
\* branch is not modelled.
open_ds(filename, dataset, mode, division) ==
    IF filename.suffix \in {".zarr", ".zip"}
    THEN IF filename.suffix = ".zip" /\ mode # "r" THEN Failed(ErrZip)
         ELSE IF ~IsArray(dataset) THEN Failed(ErrOpen)
         ELSE OpenWithOrder(dataset, dataset.order, division)
    ELSE IF filename.suffix = ".n5"
    THEN IF ~IsArray(dataset) THEN Failed(ErrOpen)
         ELSE OpenWithOrder(dataset, "F", division)
    ELSE IF filename.suffix \in {".h5", ".hdf"}
    THEN IF ~IsArray(dataset) THEN Failed(ErrOpen)
         ELSE OpenWithOrder(dataset, "C", division)
    ELSE Failed(ErrFormat)

(***************************************************************************)
(* DatasetProvisioner                                                      *)
(*                                                                         *)
(* A request is the record of prepare_ds's arguments [filename, total_roi, *)
(* voxel_size, dtype, write_roi, write_size, num_channels, compressor,     *)
(* delete, force_exact_write_size]; num_channels is None or <<n>>, and the *)
(* compressor None is the string "None".                                   *)
(***************************************************************************)
GzipLevel5 == "gzip-5"

\* write_size after the fallback to write_roi.shape
WriteSize(req) ==
    IF req.write_roi # None /\ req.write_size = None
    THEN req.write_roi.shape
    ELSE req.write_size

\* compressor after "default" is replaced
Compressor(req) ==
    IF req.compressor = "default" THEN GzipLevel5 ELSE req.compressor

\* chunk_shape before the channels are prepended (write_size and voxel_size
\* are positive: both readings of "/" agree)
SpatialChunkShape(write_size, voxel_size, force_exact_write_size) ==
    IF write_size # None
    THEN IF ~force_exact_write_size
         THEN get_chunk_shape(CoordDiv(write_size, voxel_size, "floor"))
         ELSE CoordDiv(write_size, voxel_size, "floor")
    ELSE None

\* shape, with the channels prepended
Shape(req) ==
    req.num_channels \o CoordDiv(req.total_roi.shape, req.voxel_size, "floor")

\* chunk_shape, with the channels prepended
ChunkShape(req) ==
    LET c == SpatialChunkShape(WriteSize(req), req.voxel_size, req.force_exact_write_size)
    IN  IF c = None THEN None ELSE req.num_channels \o c

\* The two attributes written as they are for zarr, whatever the format.
NewDatasetNoReverse(req) ==
    [CreateDataset(Shape(req), ChunkShape(req), req.dtype, Compressor(req))
        EXCEPT !.attrs = [resolution |-> req.voxel_size, offset |-> req.total_roi.begin]]

\* The two attributes the create branch writes, reversed for n5.
Attributes(req) ==
    IF req.filename.suffix = ".zarr"
    THEN [resolution |-> req.voxel_size, offset |-> req.total_roi.begin]
    ELSE [resolution |-> Reverse(req.voxel_size),
          offset |-> Reverse(req.total_roi.begin)]

\* The dataset the create branch stores: create_dataset, then the two
\* attributes.
NewDataset(req) ==
    [CreateDataset(Shape(req), ChunkShape(req), req.dtype, Compressor(req))
        EXCEPT !.attrs = Attributes(req)]

\* The Array the create branch returns: chunk_shape divided by the voxel
\* size (1 for the channels).
NewArray(req) ==
    Array(NewDataset(req), req.total_roi, req.voxel_size,
          IF ChunkShape(req) = None THEN None
          ELSE CoordDiv(ChunkShape(req),
                        (IF req.num_channels = None THEN <<>> ELSE <<1>>) \o req.voxel_size,
                        "floor"))

\* The five comparisons with the dtype comparison left out.
CompatibleButDtype(ds, req) ==
    /\ ArrayShape(ds) = Shape(req)
    /\ ds.roi = req.total_roi
    /\ ds.voxel_size = req.voxel_size
    /\ ~(WriteSize(req) # None /\ ds.data.chunks # ChunkShape(req))

\* The five comparisons with the roi comparison left out.
CompatibleButRoi(ds, req) ==
    /\ ArrayShape(ds) = Shape(req)
    /\ ds.voxel_size = req.voxel_size
    /\ ~(WriteSize(req) # None /\ ds.data.chunks # ChunkShape(req))
    /\ req.dtype = ArrayDtype(ds)

\* compatible, for the Array ds that open_ds returned
Compatible(ds, req) ==
    /\ ArrayShape(ds) = Shape(req)
    /\ ds.roi = req.total_roi
    /\ ds.voxel_size = req.voxel_size
    /\ ~(WriteSize(req) # None /\ ds.data.chunks # ChunkShape(req))
    /\ req.dtype = ArrayDtype(ds)

\* The arguments of the recursive call: the write size and the compressor as
\* they are by then, write_roi, delete and force_exact_write_size at their
\* defaults.
RetryRequest(req) ==
    [req EXCEPT !.write_size = WriteSize(req),
                !.write_roi = None,
                !.compressor = Compressor(req),
                !.delete = FALSE,
                !.force_exact_write_size = FALSE]

\* The first exception prepare_ds raises before it touches the file system,
\* "" when it raises none.
ArgumentError(req) ==
    IF ~IsMultipleOf(req.total_roi.shape, req.voxel_size) THEN ErrRoiShape
    ELSE IF ~IsMultipleOf(req.total_roi.begin, req.voxel_size) THEN ErrRoiOffset
    ELSE IF WriteSize(req) # None /\ ~IsMultipleOf(WriteSize(req), req.voxel_size)
         THEN ErrWriteSize
    ELSE IF req.filename.suffix \in {".h5", ".hdf"} THEN ErrHdf
    ELSE IF req.filename.suffix \notin {".zarr", ".n5"} THEN ErrFormat
    ELSE ""

Raised(fs, e) ==
    [fs |-> fs, kind |-> "error", value |-> e, deletes |-> 0, creates |-> 0]

RECURSIVE prepare_ds(_, _, _)
\* prepare_ds(**req) on the file system fs = [container, dataset]: the file
\* system it leaves, the Array it returns or the exception it raises, and the
\* numbers of rmtree and create_dataset calls it made.
prepare_ds(fs, req, division) ==
    IF ArgumentError(req) # "" THEN Raised(fs, ArgumentError(req))
    ELSE LET made == [fs EXCEPT !.container = TRUE]
         IN  IF made.dataset = None
             THEN [fs |-> [made EXCEPT !.dataset = NewDataset(req)],
                   kind |-> "ok", value |-> NewArray(req),
                   deletes |-> 0, creates |-> 1]
             ELSE LET opened == open_ds(req.filename, made.dataset, "a", division)
                  IN  IF opened.kind = "error" THEN Raised(made, opened.error)
                      ELSE IF ~Compatible(opened.value, req)
                      THEN IF ~req.delete THEN Raised(made, ErrIncompatible)
                           ELSE LET again == prepare_ds([made EXCEPT !.dataset = None],
                                                        RetryRequest(req), division)
                                IN  [again EXCEPT !.deletes = again.deletes + 1]
                      ELSE [fs |-> made, kind |-> "ok", value |-> opened.value,
                            deletes |-> 0, creates |-> 0]

(***************************************************************************)
(* Sequential callers: one container, calls of prepare_ds and open_ds one  *)
(* after the other.                                                        *)
(***************************************************************************)
Filenames == {[stem |-> "test", suffix |-> x] : x \in {".zarr", ".n5", ".h5"}}

\* total_roi and voxel_size: a base geometry, the same with the roi
\* shifted, the same with a finer voxel size (and so another shape).
Geometries ==
    {[total_roi |-> Roi(<<0, 0>>, <<8, 32>>), voxel_size |-> <<2, 4>>],
     [total_roi |-> Roi(<<4, 8>>, <<8, 32>>), voxel_size |-> <<2, 4>>],
     [total_roi |-> Roi(<<0, 0>>, <<8, 32>>), voxel_size |-> <<1, 2>>]}

\* write_size, write_roi and force_exact_write_size.  The write size
\* <<684, 2736>> is 342 or 684 voxels and more per axis, where the planner
\* returns a proper divisor.
Writes ==
    {[write_size |-> None, write_roi |-> None, force_exact_write_size |-> FALSE],
     [write_size |-> <<684, 2736>>, write_roi |-> None, force_exact_write_size |-> FALSE],
     [write_size |-> <<684, 2736>>, write_roi |-> None, force_exact_write_size |-> TRUE],
     [write_size |-> None, write_roi |-> Roi(<<0, 0>>, <<8, 16>>),
      force_exact_write_size |-> FALSE]}

Dtypes == {"uint8", "float32"}

Request(filename, g, w, dtype, num_channels, compressor, delete) ==
    [filename |-> filename, total_roi |-> g.total_roi, voxel_size |-> g.voxel_size,
     dtype |-> dtype, write_roi |-> w.write_roi, write_size |-> w.write_size,
     num_channels |-> num_channels, compressor |-> compressor, delete |-> delete,
     force_exact_write_size |-> w.force_exact_write_size]

\* A request with the defaults of the optional arguments.
Plain(filename) ==
    Request(filename,
            [total_roi |-> Roi(<<0, 0>>, <<8, 32>>), voxel_size |-> <<2, 4>>],
            [write_size |-> None, write_roi |-> None, force_exact_write_size |-> FALSE],
            "uint8", None, "default", FALSE)

\* Requests that violate an alignment precondition.
Misaligned(filename) ==
    {[Plain(filename) EXCEPT !.total_roi = Roi(<<0, 0>>, <<9, 32>>)],
     [Plain(filename) EXCEPT !.total_roi = Roi(<<1, 0>>, <<8, 32>>)],
     [Plain(filename) EXCEPT !.write_size = <<3, 4>>]}

\* Requests with another compressor than the default (none, the default
\* spelled out, another codec), with both write_size and write_roi, and
\* with channels.
OtherOptions(filename) ==
    {[Plain(filename) EXCEPT !.compressor = c, !.delete = d] :
        c \in {"None", GzipLevel5, "blosc"}, d \in BOOLEAN}
    \cup {[Plain(filename) EXCEPT !.write_size = <<684, 2736>>,
                                  !.write_roi = Roi(<<0, 0>>, <<8, 16>>)]}
    \cup {Request(filename,
                     [total_roi |-> Roi(<<0, 0>>, <<8, 32>>), voxel_size |-> <<2, 4>>],
                     w, "uint8", <<3>>, "default", d) :
             w \in Writes, d \in BOOLEAN}

Requests(filename) ==
    {Request(filename, g, w, dtype, None, "default", delete) :
        g \in Geometries, w \in Writes, dtype \in Dtypes, delete \in BOOLEAN}
    \cup Misaligned(filename)
    \cup OtherOptions(filename)

\* The reading of "/" in the provisioner's calls of open_ds: prepare_ds
\* asserts that the offset it writes is a multiple of the voxel size, so the
\* resolver rounds nothing and the two readings agree.
ProvisionerDivision == "floor"

Init ==
    /\ store \in {[filename |-> f, container |-> FALSE, dataset |-> None] : f \in Filenames}
    /\ call = [op |-> "none"]
    /\ planner = Idle
    /\ meta = Idle
    /\ procs = Idle

\* The call directly before was prepare_ds with the same arguments, on a
\* path without the dataset, and returned.
IsRepeat(req) ==
    /\ call.op = "prepare_ds"
    /\ call.req = req
    /\ call.found = None
    /\ call.kind = "ok"

\* prepare_ds(**req) is called and returns or raises.  The call is recorded
\* with its arguments, its outcome, the dataset that was stored before it
\* (found, None when the subpath was absent), and the Array the call directly
\* before returned when this call repeats that one (first).
PrepareDs(req) ==
    \E r \in {prepare_ds([container |-> store.container, dataset |-> store.dataset],
                        req, ProvisionerDivision)} :
        /\ store' = [store EXCEPT !.container = r.fs.container,
                                  !.dataset = r.fs.dataset]
        /\ call' = [op |-> "prepare_ds", req |-> req,
                    found |-> store.dataset,
                    kind |-> r.kind, value |-> r.value,
                    deletes |-> r.deletes, creates |-> r.creates,
                    first |-> IF IsRepeat(req) THEN call.value ELSE None]
        /\ UNCHANGED <<planner, meta, procs>>

\* open_ds(filename, ds_name) is called and returns or raises.
OpenDs ==
    \E r \in {open_ds(store.filename, store.dataset, "r", ProvisionerDivision)} :
        /\ call' = [op |-> "open_ds", kind |-> r.kind,
                    value |-> IF r.kind = "ok" THEN r.value ELSE r.error]
        /\ UNCHANGED <<store, planner, meta, procs>>

Next ==
    \/ \E req \in Requests(store.filename) : PrepareDs(req)
    \/ OpenDs

Spec == Init /\ [][Next]_vars

\* An argument-checked call of prepare_ds on a zarr or n5 path has returned
\* or raised.
Provisioned ==
    /\ call.op = "prepare_ds"
    /\ ArgumentError(call.req) = ""

\* The stored dataset ds differs from the request in the logical shape, the
\* roi, the voxel size, the chunk shape (when a write size was requested) or
\* the dtype; the first three as open_ds reads them from ds.
Differs(ds, req) ==
    LET a == open_ds(req.filename, ds, "a", ProvisionerDivision).value
        logical == SubSeq(ds.shape, Len(ds.shape) - Len(a.voxel_size) + 1, Len(ds.shape))
    IN  \/ logical # CoordDiv(req.total_roi.shape, req.voxel_size, "floor")
        \/ Len(ds.shape) # Len(req.num_channels) + Len(req.voxel_size)
        \/ (req.num_channels # None /\ ds.shape[1] # req.num_channels[1])
        \/ a.roi # req.total_roi
        \/ a.voxel_size # req.voxel_size
        \/ (WriteSize(req) # None /\ ds.chunks # ChunkShape(req))
        \/ ds.dtype # req.dtype

\* C1: when prepare_ds is called a second time with the arguments of a call
\* that found the subpath absent and returned, the second call raises
\* nothing, deletes and creates nothing, leaves the stored dataset as it
\* was, and returns a handle with the shape, roi, voxel size and dtype of the
\* first call's handle.
C1_Idempotent ==
    (call.op = "prepare_ds" /\ call.first # None) =>
        /\ call.kind = "ok"
        /\ call.deletes = 0
        /\ call.creates = 0
        /\ store.dataset = call.found
        /\ ArrayShape(call.value) = ArrayShape(call.first)
        /\ call.value.roi = call.first.roi
        /\ call.value.voxel_size = call.first.voxel_size
        /\ ArrayDtype(call.value) = ArrayDtype(call.first)

\* A request with channels and a write size was repeated on an n5 path, with
\* a roi that does not begin at the origin.
C1_Witness ==
    /\ call.op = "prepare_ds"
    /\ call.first # None
    /\ call.req.filename.suffix = ".n5"
    /\ call.req.total_roi.begin = <<4, 8>>
    /\ call.req.write_size # None
    /\ call.kind = "ok"

\* C2: when the subpath holds a dataset that differs from the request and
\* delete is false, prepare_ds raises the incompatible-dataset error and the
\* stored dataset is the one it found: open_ds of the path returns the
\* geometry of that dataset.
C2_IncompatibleKept ==
    (/\ Provisioned
     /\ call.found # None
     /\ ~call.req.delete
     /\ Differs(call.found, call.req)) =>
        /\ call.kind = "error"
        /\ call.value = ErrIncompatible
        /\ call.deletes = 0
        /\ call.creates = 0
        /\ store.dataset = call.found
        /\ open_ds(store.filename, store.dataset, "r", ProvisionerDivision)
              = open_ds(store.filename, call.found, "r", ProvisionerDivision)
        /\ open_ds(store.filename, store.dataset, "r", ProvisionerDivision).kind = "ok"

\* The request differed from the dataset found in nothing but the dtype, and
\* was refused.
C2_Witness ==
    /\ Provisioned
    /\ call.found # None
    /\ ~call.req.delete
    /\ call.kind = "error"
    /\ call.value = ErrIncompatible
    /\ call.found.dtype # call.req.dtype
    /\ ~Differs([call.found EXCEPT !.dtype = call.req.dtype], call.req)

\* C3: when the subpath holds a dataset that differs from the request and
\* delete is true, prepare_ds removes the subpath and creates a dataset, and
\* open_ds of the path returns the shape, roi, voxel size and dtype of the
\* request, on zarr and on n5 paths.
C3_RecreatedOpens ==
    (/\ Provisioned
     /\ call.found # None
     /\ call.req.delete
     /\ Differs(call.found, call.req)) =>
        /\ call.kind = "ok"
        /\ call.deletes = 1
        /\ call.creates = 1
        /\ LET opened == open_ds(store.filename, store.dataset, "r", ProvisionerDivision)
           IN  /\ opened.kind = "ok"
               /\ ArrayShape(opened.value)
                     = call.req.num_channels
                          \o CoordDiv(call.req.total_roi.shape, call.req.voxel_size, "floor")
               /\ opened.value.roi = call.req.total_roi
               /\ opened.value.voxel_size = call.req.voxel_size
               /\ ArrayDtype(opened.value) = call.req.dtype

\* A dataset without channels was replaced by one with channels on an n5
\* path.
C3_Witness ==
    /\ Provisioned
    /\ call.found # None
    /\ call.req.delete
    /\ call.deletes = 1
    /\ call.req.filename.suffix = ".n5"
    /\ call.req.num_channels # None
    /\ Len(call.found.shape) < Len(store.dataset.shape)

\* The call derived the chunk shape through the planner and created the
\* dataset with it.
PlannedChunks ==
    /\ Provisioned
    /\ call.creates = 1
    /\ WriteSize(call.req) # None
    /\ ~call.req.force_exact_write_size

\* The spatial components of a shape or chunk shape stored for the request.
Spatial(shape, req) == SubSeq(shape, Len(req.num_channels) + 1, Len(shape))

\* C8 as stated: when prepare_ds derives the chunk shape through the
\* planner, each component of the chunk shape of the dataset it creates
\* divides the corresponding component of the logical shape.
C8_ChunksDivideLogicalShape ==
    PlannedChunks =>
        \A i \in 1..Len(store.dataset.shape) :
            store.dataset.shape[i] % store.dataset.chunks[i] = 0

\* C8 amended: when prepare_ds derives the chunk shape through the planner,
\* each spatial component of the chunk shape of the dataset it creates
\* divides the corresponding component of the write size in voxels
\* (write_size / voxel_size), and the channel component is num_channels; it
\* need not divide the logical shape.
C8_ChunksDivideWriteSize ==
    PlannedChunks =>
        LET req == call.req
            chunks == store.dataset.chunks
            block == CoordDiv(WriteSize(req), req.voxel_size, "floor")
        IN  /\ Len(chunks) = Len(req.num_channels) + Len(block)
            /\ SubSeq(chunks, 1, Len(req.num_channels)) = req.num_channels
            /\ \A i \in 1..Len(block) :
                  /\ Spatial(chunks, req)[i] \in 1..block[i]
                  /\ block[i] % Spatial(chunks, req)[i] = 0

\* The planner returned a proper divisor of the block length on every axis,
\* for a dataset with channels, and the chunk is longer than the logical
\* shape.
C8_Witness ==
    /\ PlannedChunks
    /\ call.req.num_channels # None
    /\ LET req == call.req
           block == CoordDiv(WriteSize(req), req.voxel_size, "floor")
       IN  \A i \in 1..Len(block) :
              /\ Spatial(store.dataset.chunks, req)[i] < block[i]
              /\ Spatial(store.dataset.chunks, req)[i] > Spatial(store.dataset.shape, req)[i]

\* C9 as stated: when prepare_ds with delete=true replaces a dataset, the
\* dataset it leaves is the one the same call creates on a path where the
\* subpath is absent, and it deleted once and created once.
C9_RecreationIsFreshCreation ==
    (Provisioned /\ call.deletes > 0) =>
        /\ call.deletes = 1
        /\ call.creates = 1
        /\ store.dataset
              = prepare_ds([container |-> TRUE, dataset |-> None],
                           call.req, ProvisionerDivision).fs.dataset

\* A dataset was replaced on a request with an exact write size: the chunks
\* of the dataset left are the planner's, not the write size in voxels.
C9_Witness ==
    /\ Provisioned
    /\ call.deletes = 1
    /\ call.req.force_exact_write_size
    /\ call.req.num_channels = None
    /\ store.dataset.chunks
          # CoordDiv(call.req.write_size, call.req.voxel_size, "floor")
    /\ store.dataset.chunks
          = get_chunk_shape(CoordDiv(call.req.write_size, call.req.voxel_size, "floor"))

(***************************************************************************)
(* Concurrent callers: prepare_ds called by several processes on the same  *)
(* container and dataset name.  A step is one access to the file system    *)
(* and the computation up to the next access.  The subpath may hold a      *)
(* directory with attributes and no array, [attrs |-> a], which an         *)
(* attribute write leaves when the array was removed before it.            *)
(***************************************************************************)
Callers == {"p", "q"}

\* each caller calls prepare_ds at most MaxCalls times
MaxCalls == 2

ErrExists == "FileExistsError: container"
ErrContains == "ContainsArrayError: dataset"
ErrNotFound == "FileNotFoundError: dataset"

RaceFilenames == {[stem |-> "test", suffix |-> x] : x \in {".zarr", ".n5"}}

\* The requests of the concurrent callers: the defaults, and two requests
\* with delete=True that are not compatible with each other or the first.
RaceRequests(filename) ==
    {Plain(filename),
     [Plain(filename) EXCEPT !.dtype = "float32", !.delete = TRUE],
     [Plain(filename) EXCEPT !.total_roi = Roi(<<4, 8>>, <<8, 32>>), !.delete = TRUE]}

\* The attributes stored under the subpath, none when it is absent.
AttrsOf(dataset) == IF dataset = None THEN <<>> ELSE dataset.attrs

\* attrs[key] = value on a dictionary of attributes
PutAttr(attrs, key, value) ==
    [k \in DOMAIN attrs \cup {key} |-> IF k = key THEN value ELSE attrs[k]]

\* The subpath after the attributes are written to it.
WriteAttrs(dataset, attrs) ==
    IF dataset = None THEN [attrs |-> attrs] ELSE [dataset EXCEPT !.attrs = attrs]

\* A caller before its first call.  args are the arguments of the call, req
\* those of the innermost recursive call; attrs is the attribute cache of the
\* array the caller created; log is what the caller's call underwent.
NotCalled ==
    [pc |-> "idle", calls |-> 0, args |-> None, req |-> None, attrs |-> <<>>,
     log |-> {}, kind |-> "none", value |-> None]

\* The caller created the dataset or found it compatible in its call.
Holds(p) ==
    \/ p.pc \in {"set_resolution", "set_offset"}
    \/ p.pc = "done" /\ p.kind = "ok"

\* The callers after caller d wrote to the file system: every other caller
\* that has called notes the interference with its call, and the removal of
\* the dataset it holds.
Interfere(ps, d, removed) ==
    [c \in Callers |->
        IF c = d \/ ps[c].pc = "idle" THEN ps[c]
        ELSE [ps[c] EXCEPT !.log =
                 @ \cup {"interfered"}
                   \cup (IF removed /\ Holds(ps[c]) THEN {"deleted_under"} ELSE {})]]

\* Caller c returns value or raises it.
Finish(c, kind, value) ==
    [procs EXCEPT ![c].pc = "done", ![c].kind = kind, ![c].value = value]

InitRace ==
    /\ store \in {[filename |-> f, container |-> FALSE, dataset |-> None] :
                     f \in RaceFilenames}
    /\ procs = [c \in Callers |-> NotCalled]
    /\ call = Idle
    /\ planner = Idle
    /\ meta = Idle

\* Caller c calls prepare_ds(**req): the assertions on the arguments.
Call(c, req) ==
    /\ procs[c].pc \in {"idle", "done"}
    /\ procs[c].calls < MaxCalls
    /\ procs' = [procs EXCEPT ![c] =
                    [pc |-> IF ArgumentError(req) = "" THEN "isdir_container" ELSE "done",
                     calls |-> procs[c].calls + 1,
                     args |-> req,
                     req |-> req,
                     attrs |-> <<>>,
                     log |-> procs[c].log \cap {"double_create"},
                     kind |-> IF ArgumentError(req) = "" THEN "none" ELSE "error",
                     value |-> IF ArgumentError(req) = "" THEN None
                               ELSE ArgumentError(req)]]
    /\ UNCHANGED <<store, call, planner, meta>>

\* if not os.path.isdir(filename)
IsdirContainer(c) ==
    /\ procs[c].pc = "isdir_container"
    /\ procs' = [procs EXCEPT ![c].pc =
                    IF store.container THEN "isdir_dataset" ELSE "makedirs"]
    /\ UNCHANGED <<store, call, planner, meta>>

\* os.makedirs(filename)
Makedirs(c) ==
    /\ procs[c].pc = "makedirs"
    /\ IF store.container
       THEN /\ procs' = Finish(c, "error", ErrExists)
            /\ UNCHANGED store
       ELSE /\ store' = [store EXCEPT !.container = TRUE]
            /\ procs' = Interfere([procs EXCEPT ![c].pc = "init_container"], c, FALSE)
    /\ UNCHANGED <<call, planner, meta>>

\* zarr.open(filename, mode="w"): the container is emptied
InitContainer(c) ==
    /\ procs[c].pc = "init_container"
    /\ store' = [store EXCEPT !.container = TRUE, !.dataset = None]
    /\ procs' = Interfere([procs EXCEPT ![c].pc = "isdir_dataset"], c, FALSE)
    /\ UNCHANGED <<call, planner, meta>>

\* if not os.path.isdir(os.path.join(filename, ds_name))
IsdirDataset(c) ==
    /\ procs[c].pc = "isdir_dataset"
    /\ procs' = [procs EXCEPT ![c].pc =
                    IF store.dataset = None THEN "create" ELSE "open"]
    /\ UNCHANGED <<store, call, planner, meta>>

\* root.create_dataset(...) writes the array metadata: the backend found no
\* array under the subpath, or another caller's array was written after the
\* backend looked.  The attributes under the subpath stay.
CreateArray(c) ==
    /\ procs[c].pc = "create"
    /\ LET req == procs[c].req
       IN  store' = [store EXCEPT !.dataset =
                        [CreateDataset(Shape(req), ChunkShape(req), req.dtype,
                                       Compressor(req))
                            EXCEPT !.attrs = AttrsOf(store.dataset)]]
    /\ procs' = Interfere([procs EXCEPT ![c].pc = "set_resolution",
                                        ![c].log = @ \cup (IF IsArray(store.dataset)
                                                           THEN {"double_create"}
                                                           ELSE {})],
                          c, FALSE)
    /\ UNCHANGED <<call, planner, meta>>

\* root.create_dataset(...) raises: the backend found another caller's array
\* under the subpath.
CreateRaises(c) ==
    /\ procs[c].pc = "create"
    /\ IsArray(store.dataset)
    /\ procs' = [Finish(c, "error", ErrContains) EXCEPT ![c].log = @ \cup {"double_create"}]
    /\ UNCHANGED <<store, call, planner, meta>>

\* ds.attrs["resolution"] = ...: the attributes under the subpath are read,
\* changed and written.
SetResolution(c) ==
    /\ procs[c].pc = "set_resolution"
    /\ \E attrs \in {PutAttr(AttrsOf(store.dataset), "resolution",
                            Attributes(procs[c].req).resolution)} :
          /\ store' = [store EXCEPT !.dataset = WriteAttrs(store.dataset, attrs)]
          /\ procs' = Interfere([procs EXCEPT ![c].pc = "set_offset",
                                              ![c].attrs = attrs],
                                c, FALSE)
    /\ UNCHANGED <<call, planner, meta>>

\* ds.attrs["offset"] = ...: the caller's copy of the attributes is changed
\* and written; the Array is returned.
SetOffset(c) ==
    /\ procs[c].pc = "set_offset"
    /\ \E attrs \in {PutAttr(procs[c].attrs, "offset",
                            Attributes(procs[c].req).offset)} :
          /\ store' = [store EXCEPT !.dataset = WriteAttrs(store.dataset, attrs)]
          /\ procs' = Interfere([Finish(c, "ok", NewArray(procs[c].req))
                                    EXCEPT ![c].attrs = attrs],
                                c, FALSE)
    /\ UNCHANGED <<call, planner, meta>>

\* ds = open_ds(filename, ds_name, mode="a") and the comparisons: the Array
\* is returned, the incompatibility is raised, or the caller goes on to
\* remove the subpath.
Reuse(c) ==
    /\ procs[c].pc = "open"
    /\ \E opened \in {open_ds(store.filename, store.dataset, "a", ProvisionerDivision)} :
          procs' = IF opened.kind = "error" THEN Finish(c, "error", opened.error)
                   ELSE IF Compatible(opened.value, procs[c].req)
                        THEN Finish(c, "ok", opened.value)
                   ELSE IF ~procs[c].req.delete THEN Finish(c, "error", ErrIncompatible)
                   ELSE [procs EXCEPT ![c].pc = "rmtree"]
    /\ UNCHANGED <<store, call, planner, meta>>

\* shutil.rmtree(os.path.join(filename, ds_name)), and the recursive call
Rmtree(c) ==
    /\ procs[c].pc = "rmtree"
    /\ IF store.dataset = None
       THEN /\ procs' = Finish(c, "error", ErrNotFound)
            /\ UNCHANGED store
       ELSE /\ store' = [store EXCEPT !.dataset = None]
            /\ procs' = Interfere([procs EXCEPT ![c].pc = "isdir_container",
                                                ![c].req = RetryRequest(@),
                                                ![c].attrs = <<>>],
                                  c, TRUE)
    /\ UNCHANGED <<call, planner, meta>>

NextRace ==
    \E c \in Callers :
        \/ \E req \in RaceRequests(store.filename) : Call(c, req)
        \/ IsdirContainer(c)
        \/ Makedirs(c)
        \/ InitContainer(c)
        \/ IsdirDataset(c)
        \/ CreateArray(c)
        \/ CreateRaises(c)
        \/ SetResolution(c)
        \/ SetOffset(c)
        \/ Reuse(c)
        \/ Rmtree(c)

SpecRace == InitRace /\ [][NextRace]_vars

\* C10: provisioning is not atomic.  What a caller is given holds only as
\* long as no other caller writes: an Array returned has the roi, voxel size
\* and dtype asked for, and it refers to the dataset stored under the subpath
\* unless another caller wrote during or after the call; create_dataset
\* fails only where two callers that saw the subpath absent both create; a
\* caller with delete=True is refused as incompatible only when another
\* caller wrote during its call.  The witness is the interleaving the claim
\* describes.
C10_StaleOnlyByInterference ==
    \A c \in Callers :
        LET p == procs[c]
        IN  /\ (p.pc = "done" /\ p.kind = "ok") =>
                  /\ p.value.roi = p.args.total_roi
                  /\ p.value.voxel_size = p.args.voxel_size
                  /\ ArrayDtype(p.value) = p.args.dtype
                  /\ p.value.data # store.dataset => "interfered" \in p.log
            /\ (p.pc = "done" /\ p.kind = "error") =>
                  /\ p.value = ErrContains => "double_create" \in p.log
                  /\ (p.value = ErrIncompatible /\ p.args.delete) => "interfered" \in p.log
                  /\ p.value \in {ErrExists, ErrNotFound} => "interfered" \in p.log

\* Two callers saw the subpath absent and both executed create_dataset, and
\* a caller with delete=True removed the subpath after the other caller had
\* created or validated the dataset: the Array the other caller was returned
\* refers to a dataset that is no longer stored.
C10_Witness ==
    \E c \in Callers, d \in Callers :
        /\ c # d
        /\ "double_create" \in procs[d].log
        /\ procs[d].args.delete
        /\ procs[c].pc = "done"
        /\ procs[c].kind = "ok"
        /\ "deleted_under" \in procs[c].log
        /\ procs[c].value.data # store.dataset

====
